---- MODULE Spec2Model ----
(***************************************************************************)
(* A model of the CLIP network of nets/clip.py and nets/vit.py.  Tensors   *)
(* are modelled by their shape, dtype and device; their entries are kept   *)
(* only where the code's control or result depends on them (attention     *)
(* masks, token ids, the embeddings that forward normalises).             *)
(***************************************************************************)
EXTENDS Integers, Sequences, FiniteSets, TLC

VARIABLES
    visual,     \* the VisionTransformer object under test
    vit_call,   \* what the last VisionTransformer operation did
    heap,       \* live mask tensors, by instance id
    tf,         \* the Transformer stack under test
    tf_call,    \* what the last Transformer operation did
    tf_hist,    \* the mask the stack was built with; whether a forward input differed from it
    clip,       \* the CLIP object under test
    clip_call,  \* what the last CLIP operation did
    pool_log    \* every (text, pooled position) encode_text has produced

vars == <<visual, vit_call, heap, tf, tf_call, tf_hist, clip, clip_call, pool_log>>
vitVars == <<visual, vit_call>>
tfVars == <<tf, tf_call, tf_hist>>
clipVars == <<clip, clip_call, pool_log>>

(***************************************************************************)
(* Bounds of the model.                                                    *)
(***************************************************************************)
MaxRes == 5
MaxPatch == 3
MaxBatch == 2
MaxLayers == 2
MaxCtx == 2
TfWidth == 4
VitOutputDim == 3
ClipEmbedDim == 2
HfHiddenSize == 5
LongTextLen == 80
MaxTexts == 2

\* The defaults of CLIP.__init__.
ClipResolution == 224
ClipPatch == 32
ClipVisionWidth == 768
ClipVisionLayers == 12
ClipContextLength == 77
ClipVocabSize == 49408

\* The tokenizer of nets/simple_tokenizer.py: its own context length, and
\* the ids of its start and end markers.
TokenizerContextLength == 77
SotToken == 49406
EotToken == 49407

\* The __main__ smoke test of nets/vit.py.
SmokeResolution == 224
SmokePatch == 32
SmokeWidth == 768
SmokeLayers == 12
SmokeOutputDim == 512

\* None, as the id of a mask a block does not have and as the mask handed then.
NoId == 0
NoMask == [dtype |-> "None", device |-> "None", vals |-> <<>>]

(***************************************************************************)
(* Shapes.                                                                 *)
(***************************************************************************)
Max2(a, b) == IF a >= b THEN a ELSE b

\* What a shape computation that raises yields.
ShapeError == <<-1>>

\* torch's broadcasting of two shapes, aligned at the last dimension: an error
\* when two sizes differ and neither is 1.
BroadcastDimOk(a, b) == a = b \/ a = 1 \/ b = 1

PadShape(s, n) == [i \in 1..n |-> IF i <= n - Len(s) THEN 1 ELSE s[i - (n - Len(s))]]

BroadcastShapes(s1, s2) ==
    LET n == Max2(Len(s1), Len(s2))
        a == PadShape(s1, n)
        b == PadShape(s2, n)
    IN  IF \A i \in 1..n : BroadcastDimOk(a[i], b[i])
        THEN [i \in 1..n |-> Max2(a[i], b[i])]
        ELSE ShapeError

\* Conv2d(kernel_size = k, stride = k, padding = 0) along one spatial axis:
\* the output size, -1 when the kernel is larger than the input (an error).
ConvOut(size, k) == IF size < k THEN -1 ELSE ((size - k) \div k) + 1

(***************************************************************************)
(* Tensors whose entries matter: attention masks.  A tensor is a record    *)
(* [dtype, device, vals], vals a square matrix (a sequence of rows) of     *)
(* entries written as strings.                                             *)
(***************************************************************************)
Zero == "0.0"
NegInf == "-inf"
One == "1.0"

FloatDtypes == {"float32", "float16"}

\* torch.empty(...) makes a float32 tensor on the cpu.
DefaultDtype == "float32"
DefaultDevice == "cpu"

\* Tensor.to(dtype) on one entry: a float entry becomes True unless it is
\* zero, a bool entry becomes 1.0 or 0.0; float16 and float32 both hold 0, 1
\* and -inf exactly.
CastEntry(v, toDtype) ==
    IF toDtype = "bool"
    THEN (IF v \in {"True", "False"} THEN v
          ELSE IF v = Zero THEN "False" ELSE "True")
    ELSE (IF v = "True" THEN One
          ELSE IF v = "False" THEN Zero
          ELSE v)

CastTensor(t, dtype, device) ==
    [dtype |-> dtype, device |-> device,
     vals |-> [i \in 1..Len(t.vals) |->
                 [j \in 1..Len(t.vals[i]) |-> CastEntry(t.vals[i][j], dtype)]]]

\* A triu_ that keeps the diagonal too.
Triu0(vals) ==
    [i \in 1..Len(vals) |->
        [j \in 1..Len(vals[i]) |-> IF j - i >= 0 THEN vals[i][j] ELSE Zero]]

\* mask.triu_(1): keeps the entries with j - i >= 1, zeroes the others.
Triu1(vals) ==
    [i \in 1..Len(vals) |->
        [j \in 1..Len(vals[i]) |-> IF j - i >= 1 THEN vals[i][j] ELSE Zero]]

\* CLIP.build_attention_mask: empty(n, n), fill_(-inf), triu_(1).
BuildAttentionMask(n) ==
    LET filled == [i \in 1..n |-> [j \in 1..n |-> NegInf]]
    IN  [dtype |-> DefaultDtype, device |-> DefaultDevice, vals |-> Triu1(filled)]

(***************************************************************************)
(* The heap: instance id -> tensor.  An instance lives while a block holds *)
(* it; a new tensor takes the smallest free id.                            *)
(***************************************************************************)
EmptyHeap == [i \in {} |-> NoMask]

NewId(h) == CHOOSE i \in 1..(Cardinality(DOMAIN h) + 1) : i \notin DOMAIN h

\* The ids the blocks hold.
Held(blocks) == {blocks[k].attn_mask : k \in 1..Len(blocks)} \ {NoId}

Collect(h, blocks) == [i \in (DOMAIN h \cap Held(blocks)) |-> h[i]]

\* A Tensor.to that copies even when nothing has to be converted.
ToAlwaysCopy(h, id, dtype, device) ==
    LET n == NewId(h)
    IN  [id |-> n,
         heap |-> [i \in DOMAIN h \cup {n} |->
                     IF i = n THEN CastTensor(h[id], dtype, device) ELSE h[i]]]

\* Tensor.to(dtype=, device=): the tensor itself when it already has that
\* dtype and device, a converted copy otherwise.
To(h, id, dtype, device) ==
    IF h[id].dtype = dtype /\ h[id].device = device
    THEN [id |-> id, heap |-> h]
    ELSE LET n == NewId(h)
         IN  [id |-> n,
              heap |-> [i \in DOMAIN h \cup {n} |->
                          IF i = n THEN CastTensor(h[id], dtype, device) ELSE h[i]]]

(***************************************************************************)
(* ResidualAttentionBlock and Transformer (nets/vit.py).  An input x is a  *)
(* record [shape, dtype, device], shape = <<L, N, D>>.  par is the dtype   *)
(* and device of the stack's parameters.                                   *)
(***************************************************************************)
\* LayerNorm.forward: computes in float32 and casts back.  With parameters
\* that are not float32 the float32 input meets parameters of another dtype,
\* which the runtime accepts or refuses depending on its build (lnMixed).
LayerNormOk(x, width, par, lnMixed) ==
    /\ x.shape[Len(x.shape)] = width
    /\ x.device = par.device
    /\ (par.dtype = "float32" \/ lnMixed)

\* nn.MultiheadAttention / nn.Linear on x: a float input of the parameters'
\* dtype and device, and a 2-D mask of shape (L, L).
AttnOk(x, mask, width, par) ==
    /\ x.dtype = par.dtype
    /\ x.device = par.device
    /\ x.shape[Len(x.shape)] = width
    /\ (mask # NoMask =>
            /\ Len(mask.vals) = x.shape[1]
            /\ \A i \in 1..Len(mask.vals) : Len(mask.vals[i]) = x.shape[1])

\* ResidualAttentionBlock.attention: the mask is cast to x and stored back,
\* then handed to self-attention.
Attention(h, block, x) ==
    IF block.attn_mask = NoId
    THEN [heap |-> h, block |-> block, handed |-> NoMask]
    ELSE LET r == To(h, block.attn_mask, x.dtype, x.device)
         IN  [heap |-> r.heap,
              block |-> [block EXCEPT !.attn_mask = r.id],
              handed |-> r.heap[r.id]]

\* ResidualAttentionBlock.forward on block k of the stack; st is
\* [heap, blocks, status, handed].  An exception leaves what was stored.
BlockForward(st, k, x, width, par, lnMixed) ==
    IF st.status # "ok" THEN st
    ELSE IF ~LayerNormOk(x, width, par, lnMixed) THEN [st EXCEPT !.status = "error"]
    ELSE LET a == Attention(st.heap, st.blocks[k], x)
             blocks == [st.blocks EXCEPT ![k] = a.block]
             next == [heap |-> Collect(a.heap, blocks),
                      blocks |-> blocks,
                      status |-> IF AttnOk(x, a.handed, width, par) THEN "ok" ELSE "error",
                      handed |-> Append(st.handed, a.handed)]
         IN  next

RECURSIVE RunBlocks(_, _, _, _, _, _)
RunBlocks(st, k, x, width, par, lnMixed) ==
    IF k > Len(st.blocks) THEN st
    ELSE RunBlocks(BlockForward(st, k, x, width, par, lnMixed), k + 1, x, width, par, lnMixed)

\* Transformer.__init__: every block is given the same attn_mask object.
TransformerBlocks(layers, maskId) == [k \in 1..layers |-> [attn_mask |-> maskId]]

TransformerInit(width, layers, mask) ==
    LET id == IF mask = NoMask THEN NoId ELSE 1
        blocks == TransformerBlocks(layers, id)
        h == IF mask = NoMask THEN EmptyHeap ELSE [i \in {1} |-> mask]
    IN  [obj |-> [width |-> width, layers |-> layers, resblocks |-> blocks,
                  par |-> [dtype |-> DefaultDtype, device |-> DefaultDevice]],
         heap |-> Collect(h, blocks)]

\* Transformer.forward: the blocks in order.  The output has x's shape.
TransformerForward(h, t, x, lnMixed) ==
    LET st == RunBlocks([heap |-> h, blocks |-> t.resblocks, status |-> "ok", handed |-> <<>>],
                        1, x, t.width, t.par, lnMixed)
    IN  [heap |-> st.heap,
         obj |-> [t EXCEPT !.resblocks = st.blocks],
         status |-> st.status,
         handed |-> st.handed,
         out |-> x]

(***************************************************************************)
(* The Transformer stack on its own: built in Init, then forward calls and *)
(* nn.Module.to in any order.                                              *)
(***************************************************************************)
IdleVit == [built |-> FALSE]
IdleCall == [op |-> "none"]
IdleTf == [built |-> FALSE]
IdleHist == [mask0 |-> NoMask, mismatch |-> FALSE]
IdleClip == [built |-> FALSE]

VitIdle == visual = IdleVit /\ vit_call = IdleCall
TfIdle == tf = IdleTf /\ tf_call = IdleCall /\ tf_hist = IdleHist
ClipIdle == clip = IdleClip /\ clip_call = IdleCall /\ pool_log = {}

\* The masks a stack is built with: none, or the causal mask of some side.
StackMasks == {NoMask} \cup {BuildAttentionMask(n) : n \in 1..MaxCtx}

TfInit ==
    \E layers \in 0..MaxLayers, mask \in StackMasks :
        LET r == TransformerInit(TfWidth, layers, mask)
        IN  /\ tf = r.obj
            /\ heap = r.heap
            /\ tf_call = [op |-> "construct"]
            /\ tf_hist = [mask0 |-> mask, mismatch |-> FALSE]

\* The (dtype, device) of the inputs tried: the default, half precision,
\* another device, and a dtype that is not a float.
InputKinds ==
    {<<"float32", "cpu">>, <<"float16", "cpu">>, <<"float32", "cuda">>, <<"bool", "cpu">>}

Differs(x, mask) == mask # NoMask /\ (x.dtype # mask.dtype \/ x.device # mask.device)

TfForward ==
    \E kind \in InputKinds, L \in 1..MaxCtx,
       lnMixed \in (IF tf.par.dtype = "float32" THEN {TRUE} ELSE BOOLEAN) :
        \E x \in {[shape |-> <<L, 1, tf.width>>, dtype |-> kind[1], device |-> kind[2]]} :
        \E r \in {TransformerForward(heap, tf, x, lnMixed)} :
            /\ tf' = r.obj
            /\ heap' = r.heap
            /\ tf_call' = [op |-> "forward", x |-> x, status |-> r.status, handed |-> r.handed]
            /\ tf_hist' = [tf_hist EXCEPT !.mismatch = @ \/ Differs(x, tf_hist.mask0)]
            /\ UNCHANGED <<vitVars, clipVars>>

\* nn.Module.to / half / cuda: converts the parameters; attn_mask is a plain
\* attribute, neither a parameter nor a buffer, and stays as it is.
ModuleTo(t, dtype, device) == [t EXCEPT !.par = [dtype |-> dtype, device |-> device]]

TfModuleTo ==
    \E kind \in {k \in InputKinds : k[1] \in FloatDtypes} :
        /\ tf' = ModuleTo(tf, kind[1], kind[2])
        /\ tf_call' = [op |-> "to"]
        /\ UNCHANGED <<heap, tf_hist, vitVars, clipVars>>

InitStack == TfInit /\ VitIdle /\ ClipIdle
NextStack == TfForward \/ TfModuleTo
SpecStack == InitStack /\ [][NextStack]_vars

(***************************************************************************)
(* Claims about the Transformer stack (checked under SpecStack).           *)
(***************************************************************************)
SameInstance == \A k, l \in 1..Len(tf.resblocks) : tf.resblocks[k].attn_mask = tf.resblocks[l].attn_mask

Masks(v) == v \in {NegInf, "True"}
Allows(v) == v \in {Zero, "False"}

SamePattern(a, b) ==
    /\ Len(a) = Len(b)
    /\ \A i \in 1..Len(a) :
        /\ Len(a[i]) = Len(b[i])
        /\ \A j \in 1..Len(a[i]) :
            /\ Masks(a[i][j]) <=> b[i][j] = NegInf
            /\ Allows(a[i][j]) <=> b[i][j] = Zero

\* C10 as stated: in each forward call the mask handed to self-attention has
\* the dtype and device of that call's input and the pattern of the mask given
\* at construction; a block built without a mask hands none.
C10_HandedMaskMatchesInput ==
    tf_call.op = "forward" =>
        \A k \in 1..Len(tf_call.handed) :
            IF tf_hist.mask0 = NoMask
            THEN tf_call.handed[k] = NoMask
            ELSE /\ tf_call.handed[k].dtype = tf_call.x.dtype
                 /\ tf_call.handed[k].device = tf_call.x.device
                 /\ SamePattern(tf_call.handed[k].vals, tf_hist.mask0.vals)

(***************************************************************************)
(* VisionTransformer (nets/vit.py).  An image is [shape, dtype, device],   *)
(* shape = <<B, C, H, W>>.                                                 *)
(***************************************************************************)
\* A positional embedding without the class token's row.
PositionalRowsNoClass(input_resolution, patch_size) ==
    (input_resolution \div patch_size) * (input_resolution \div patch_size)

\* The rows of positional_embedding: (input_resolution // patch_size) ** 2 + 1.
PositionalRows(input_resolution, patch_size) ==
    (input_resolution \div patch_size) * (input_resolution \div patch_size) + 1

\* VisionTransformer.__init__: nothing is checked, every argument is stored
\* or used to size a parameter.
VisionInit(input_resolution, patch_size, width, layers, output_dim) ==
    [built |-> TRUE,
     input_resolution |-> input_resolution,
     output_dim |-> output_dim,
     patch_size |-> patch_size,
     width |-> width,
     pos_rows |-> PositionalRows(input_resolution, patch_size),
     transformer |-> TransformerInit(width, layers, NoMask).obj]

\* conv1 on the image: 3 input channels, kernel = stride = patch_size, and
\* an input of the weights' dtype and device.
Conv1(v, img) ==
    LET gh == ConvOut(img.shape[3], v.patch_size)
        gw == ConvOut(img.shape[4], v.patch_size)
    IN  IF \/ img.shape[2] # 3
           \/ img.dtype # v.transformer.par.dtype
           \/ img.device # v.transformer.par.device
           \/ gh = -1
           \/ gw = -1
        THEN ShapeError
        ELSE <<img.shape[1], v.width, gh, gw>>

\* torch.cat([class_embedding + zeros(B, 1, width), x], dim=1): the class token
\* first, then the patches.
ClassCat(patches) == <<"cls">> \o patches

FailedForward(img) ==
    [op |-> "forward", image |-> img, status |-> "error", tokens |-> <<>>,
     seq_added |-> 0, seq_out |-> 0, pooled |-> 0, out_shape |-> <<>>]

\* VisionTransformer.forward.
VisionForward(v, img) ==
    LET c == Conv1(v, img)
    IN  IF c = ShapeError THEN FailedForward(img)
        ELSE
        LET B == c[1]
            flat == <<B, c[2], c[3] * c[4]>>                 \* reshape
            nld == <<flat[1], flat[3], flat[2]>>             \* permute(0, 2, 1)
            tokens == ClassCat([i \in 1..nld[2] |-> "patch"])
            cat == <<B, Len(tokens), nld[3]>>
            added == BroadcastShapes(cat, <<v.pos_rows, v.width>>)
        IN  IF added = ShapeError
            THEN [FailedForward(img) EXCEPT !.tokens = tokens]
            ELSE
            LET x == [shape |-> <<added[2], added[1], added[3]>>,   \* permute(1, 0, 2)
                      dtype |-> img.dtype, device |-> img.device]
                r == TransformerForward(EmptyHeap, v.transformer, x, TRUE)
                back == <<r.out.shape[2], r.out.shape[1], r.out.shape[3]>>
                pooled == 0                                   \* x[:, 0, :]
                cls == <<back[1], back[3]>>
                out == <<cls[1], v.output_dim>>               \* x @ proj
            IN  IF r.status # "ok"
                THEN [FailedForward(img) EXCEPT !.tokens = tokens, !.seq_added = added[2]]
                ELSE [op |-> "forward", image |-> img, status |-> "ok", tokens |-> tokens,
                      seq_added |-> added[2], seq_out |-> back[2], pooled |-> pooled,
                      out_shape |-> out]

\* The configurations tried: small ones, and the smoke test's.
VitConfigs ==
    {[res |-> r, patch |-> p, width |-> TfWidth, layers |-> l, out |-> VitOutputDim] :
        r \in 1..MaxRes, p \in 1..MaxPatch, l \in 0..MaxLayers}
    \cup {[res |-> SmokeResolution, patch |-> SmokePatch, width |-> SmokeWidth,
           layers |-> SmokeLayers, out |-> SmokeOutputDim]}

VitInit ==
    \E c \in VitConfigs :
        /\ visual = VisionInit(c.res, c.patch, c.width, c.layers, c.out)
        /\ vit_call = [op |-> "construct", status |-> "ok"]

\* Image sides tried: small ones, the configured resolution, and one pixel more.
ImageSides == (1..(MaxRes + 1)) \cup {visual.input_resolution, visual.input_resolution + 1}

VitForward ==
    \E B \in 1..MaxBatch, H \in ImageSides, W \in ImageSides :
        LET img == [shape |-> <<B, 3, H, W>>, dtype |-> DefaultDtype, device |-> DefaultDevice]
        IN  /\ vit_call' = VisionForward(visual, img)
            /\ UNCHANGED <<visual, heap, tfVars, clipVars>>

InitVit == VitInit /\ heap = EmptyHeap /\ TfIdle /\ ClipIdle
NextVit == VitForward
SpecVit == InitVit /\ [][NextVit]_vars

\* C2 as stated: a shape mismatch in the vision encoder is always an error:
\* a resolution that patch_size does not divide is rejected at construction,
\* and forward on an image whose token count differs from the number of
\* positional rows raises instead of returning.
C2_ShapeMismatchIsError ==
    /\ visual.built => visual.input_resolution % visual.patch_size = 0
    /\ (vit_call.op = "forward" /\ vit_call.tokens # <<>>
            /\ Len(vit_call.tokens) # visual.pos_rows)
        => vit_call.status = "error"

\* C6: with patch_size dividing input_resolution, forward on (B, 3, R, R)
\* builds (R/P)^2 + 1 tokens, the class token first, as many as positional
\* rows, keeps that length through the stack, pools position 0 and returns
\* (B, output_dim); 224 and 32 give 50 tokens.
C6_VisionForwardShape ==
    LET R == visual.input_resolution
        P == visual.patch_size
    IN  (/\ vit_call.op = "forward"
         /\ R % P = 0
         /\ vit_call.image.shape[3] = R
         /\ vit_call.image.shape[4] = R)
        =>
        /\ vit_call.status = "ok"
        /\ Len(vit_call.tokens) = (R \div P) * (R \div P) + 1
        /\ vit_call.tokens[1] = "cls"
        /\ \A i \in 2..Len(vit_call.tokens) : vit_call.tokens[i] = "patch"
        /\ Len(vit_call.tokens) = visual.pos_rows
        /\ vit_call.seq_added = Len(vit_call.tokens)
        /\ vit_call.seq_out = Len(vit_call.tokens)
        /\ vit_call.tokens[vit_call.pooled + 1] = "cls"
        /\ vit_call.out_shape = <<vit_call.image.shape[1], visual.output_dim>>
        /\ (R = 224 /\ P = 32 => Len(vit_call.tokens) = 50)

C6_Witness ==
    /\ vit_call.op = "forward"
    /\ vit_call.status = "ok"
    /\ visual.input_resolution = 224
    /\ visual.patch_size = 32
    /\ vit_call.image.shape = <<MaxBatch, 3, 224, 224>>
    /\ Len(vit_call.tokens) = 50
    /\ vit_call.out_shape = <<MaxBatch, 512>>

(***************************************************************************)
(* Exact arithmetic for the embeddings: a number is <<n, d>> with d > 0 in *)
(* lowest terms, or NaN, the result of 0 / 0.                              *)
(***************************************************************************)
NaN == <<0, 0>>

Abs(n) == IF n < 0 THEN -n ELSE n

RECURSIVE Gcd(_, _)
Gcd(a, b) == IF b = 0 THEN a ELSE Gcd(b, a % b)

Rat(n, d) ==
    IF d = 0 THEN NaN
    ELSE LET g == Gcd(Abs(n), Abs(d))
             sgn == IF d < 0 THEN -1 ELSE 1
         IN  <<sgn * (n \div g), sgn * (d \div g)>>

RMul(a, b) == IF a = NaN \/ b = NaN THEN NaN ELSE Rat(a[1] * b[1], a[2] * b[2])
RAdd(a, b) == IF a = NaN \/ b = NaN THEN NaN ELSE Rat(a[1] * b[2] + b[1] * a[2], a[2] * b[2])
\* IEEE division of finite numbers; the only zero divisor met is 0 / 0.
RDiv(a, b) == IF a = NaN \/ b = NaN \/ b[1] = 0 THEN NaN ELSE Rat(a[1] * b[2], a[2] * b[1])

RECURSIVE SumSq(_, _)
SumSq(v, k) == IF k = 0 THEN 0 ELSE v[k] * v[k] + SumSq(v, k - 1)

\* The square root of a perfect square.
Sqrt(s) == CHOOSE n \in 0..s : n * n = s

\* Tensor.norm(dim=-1) of an integer vector whose norm is an integer.
Norm(v) == Sqrt(SumSq(v, Len(v)))

\* features / features.norm(dim=-1, keepdim=True), one row.
Normalize(v) == [i \in 1..Len(v) |-> RDiv(Rat(v[i], 1), Rat(Norm(v), 1))]

RECURSIVE RDot(_, _, _)
RDot(a, b, k) == IF k = 0 THEN Rat(0, 1) ELSE RAdd(RDot(a, b, k - 1), RMul(a[k], b[k]))

\* A "transpose" that hands back the matrix itself.
TransposeForgotten(m, rows, cols) == m

\* Tensor.t() of a matrix with rows rows and cols columns.
T(m, rows, cols) == [t \in 1..cols |-> [v \in 1..rows |-> m[v][t]]]

\* logit_scale holds the logarithm of a positive number: [ln |-> q] is ln(q).
\* np.log(1 / 0.07) is the logarithm of 100/7.
InitialLogitScale == [ln |-> Rat(100, 7)]
Exp(p) == p.ln

(***************************************************************************)
(* The tokenizer (nets/simple_tokenizer.py).  A text is the sequence of    *)
(* ids its byte-pair encoding yields.                                      *)
(***************************************************************************)
\* One text: start marker, the encoding, end marker; cut to context_length
\* with the end marker last when truncate is set; padded with zeros.
TokenizeOne(enc, context_length, truncate) ==
    LET all == <<SotToken>> \o enc \o <<EotToken>>
        cut == IF Len(all) > context_length
               THEN [i \in 1..context_length |->
                        IF i = context_length THEN EotToken ELSE all[i]]
               ELSE all
    IN  IF Len(all) > context_length /\ ~truncate
        THEN <<-1>>
        ELSE [i \in 1..context_length |-> IF i <= Len(cut) THEN cut[i] ELSE 0]

\* tokenize(tokenizer, texts, context_length=77, truncate=False): a
\* (len(texts), context_length) tensor of ids.
Tokenize(texts, context_length, truncate) ==
    [b \in 1..Len(texts) |-> TokenizeOne(texts[b], context_length, truncate)]

(***************************************************************************)
(* CLIP (nets/clip.py).                                                    *)
(***************************************************************************)
\* The position of the last maximum.
ArgMaxLast(row) ==
    CHOOSE p \in 0..(Len(row) - 1) :
        /\ \A q \in 1..Len(row) : row[q] <= row[p + 1]
        /\ \A q \in (p + 2)..Len(row) : row[q] < row[p + 1]

\* argmax(dim=-1) on one row: the (0-based) position of the maximum,
\* the first one when it occurs more than once.
ArgMax(row) ==
    CHOOSE p \in 0..(Len(row) - 1) :
        /\ \A q \in 1..Len(row) : row[q] <= row[p + 1]
        /\ \A q \in 1..p : row[q] < row[p + 1]

\* The Transformer of nets/bert.py, as CLIP.__init__ builds it.
BertTransformerInit(width, layers, mask) == TransformerInit(width, layers, mask)

\* CLIP.__init__.  hfName: kwargs holds 'huggingface_model_name'.  The text
\* attributes exist only for the two bert_type values the branches name.
ClipConstruct(bert_type, context_length, transformer_layers, hfName) ==
    LET vis == VisionInit(ClipResolution, ClipPatch, ClipVisionWidth, ClipVisionLayers,
                          ClipEmbedDim)
        base == [built |-> TRUE, context_length |-> context_length, visual |-> vis,
                 bert_type |-> bert_type, embed_dim |-> ClipEmbedDim,
                 logit_scale |-> InitialLogitScale]
    IN  IF bert_type = "openai"
        THEN LET mask == BuildAttentionMask(context_length)
                 t == BertTransformerInit(TfWidth, transformer_layers, mask)
             IN  [status |-> "ok", heap |-> t.heap, built_mask |-> mask,
                  obj |-> base @@ [transformer |-> t.obj, vocab_size |-> ClipVocabSize,
                                   pos_rows |-> context_length, text_width |-> TfWidth]]
        ELSE IF bert_type = "huggingface"
        THEN IF hfName
             THEN [status |-> "ok", heap |-> EmptyHeap, built_mask |-> NoMask,
                   obj |-> base @@ [text_width |-> HfHiddenSize]]
             ELSE [status |-> "error", heap |-> EmptyHeap, built_mask |-> NoMask,
                   obj |-> IdleClip]
        ELSE [status |-> "ok", heap |-> EmptyHeap, built_mask |-> NoMask,
              obj |-> base @@ [text_width |-> TfWidth]]

FailedEncode(c, h, texts, tokens) ==
    [status |-> "error", heap |-> h, obj |-> c, texts |-> texts, tokens |-> tokens,
     pooled |-> <<>>, out_shape |-> <<>>]

\* The Transformer of nets/bert.py, which CLIP's text path builds and runs: the
\* stack of residual attention blocks with the shared mask.
BertTransformerForward(h, t, x) == TransformerForward(h, t, x, TRUE)

\* CLIP.encode_text, bert_type "openai".
EncodeTextOpenai(c, h, texts) ==
    LET text == Tokenize(texts, TokenizerContextLength, TRUE)
        B == Len(text)
        idsOk == \A b \in 1..B : \A i \in 1..Len(text[b]) :
                    text[b][i] >= 0 /\ text[b][i] < c.vocab_size
        emb == <<B, Len(text[1]), c.text_width>>               \* token_embedding(text)
        added == BroadcastShapes(emb, <<c.pos_rows, c.text_width>>)
    IN  IF ~idsOk \/ added = ShapeError THEN FailedEncode(c, h, texts, text)
        ELSE
        LET x == [shape |-> <<added[2], added[1], added[3]>>,  \* permute(1, 0, 2)
                  dtype |-> c.visual.transformer.par.dtype,
                  device |-> c.visual.transformer.par.device]
            r == BertTransformerForward(h, c.transformer, x)
            back == <<r.out.shape[2], r.out.shape[1], r.out.shape[3]>>
            pooled == [b \in 1..B |-> ArgMax(text[b])]
        IN  IF r.status # "ok"
            THEN FailedEncode([c EXCEPT !.transformer = r.obj], r.heap, texts, text)
            ELSE [status |-> "ok", heap |-> r.heap,
                  obj |-> [c EXCEPT !.transformer = r.obj],
                  texts |-> texts, tokens |-> text, pooled |-> pooled,
                  out_shape |-> <<back[1], c.embed_dim>>]

\* CLIP.encode_text, bert_type "huggingface": the pretrained tokenizer and
\* model yield pooler_output of shape (B, hidden_size).
EncodeTextHuggingface(c, h, texts) ==
    LET pooler == <<Len(texts), c.text_width>>
    IN  [status |-> "ok", heap |-> h, obj |-> c, texts |-> texts, tokens |-> <<>>,
         pooled |-> <<>>, out_shape |-> <<pooler[1], c.embed_dim>>]

\* CLIP.encode_text: with any other bert_type neither branch assigns x and
\* "return x" raises.
EncodeText(c, h, texts) ==
    IF c.bert_type = "openai" THEN EncodeTextOpenai(c, h, texts)
    ELSE IF c.bert_type = "huggingface" THEN EncodeTextHuggingface(c, h, texts)
    ELSE FailedEncode(c, h, texts, <<>>)

\* CLIP.encode_image.
EncodeImage(c, img) ==
    VisionForward(c.visual, [img EXCEPT !.dtype = c.visual.transformer.par.dtype])

\* The rest of CLIP.forward, from the two encoders' outputs (one row per image,
\* one per text).
Logits(c, image_features, text_features) ==
    LET Bv == Len(image_features)
        Bt == Len(text_features)
        img == [v \in 1..Bv |-> Normalize(image_features[v])]
        txt == [t \in 1..Bt |-> Normalize(text_features[t])]
        logit_scale == Exp(c.logit_scale)
        scaled == [v \in 1..Bv |-> [i \in 1..Len(img[v]) |-> RMul(logit_scale, img[v][i])]]
        logits_per_image ==
            [v \in 1..Bv |-> [t \in 1..Bt |-> RDot(scaled[v], txt[t], Len(txt[t]))]]
        logits_per_text == T(logits_per_image, Bv, Bt)
    IN  [image_norms |-> [v \in 1..Bv |-> Norm(image_features[v])],
         text_norms |-> [t \in 1..Bt |-> Norm(text_features[t])],
         logits_per_image |-> logits_per_image,
         logits_per_text |-> logits_per_text]

(***************************************************************************)
(* CLIP: built in Init, then encode_text calls (SpecText) or forward calls *)
(* (SpecForward).                                                          *)
(***************************************************************************)
BertTypes == {"openai", "huggingface", "bert"}
ContextLengths == (1..MaxCtx) \cup {ClipContextLength}

ClipInitWith(ctxs, layerCounts) ==
    \E bert_type \in BertTypes, ctx \in ctxs, layers \in layerCounts, hfName \in BOOLEAN :
        LET r == ClipConstruct(bert_type, ctx, layers, hfName)
        IN  /\ clip = r.obj
            /\ heap = r.heap
            /\ clip_call = [op |-> "construct", status |-> r.status, bert_type |-> bert_type,
                            context_length |-> ctx, built_mask |-> r.built_mask]
            /\ pool_log = {}

\* The texts tried, as their encodings: the empty text, one word, a text
\* that spells the end marker in its middle, and one longer than any context.
Texts ==
    <<  <<>>, <<320>>, <<320, EotToken, 1125>>, [i \in 1..LongTextLen |-> 320]  >>

\* A run of n entries of list, from entry o + 1 on, cyclically.
Run(list, o, n) == [b \in 1..n |-> list[((o + b - 1) % Len(list)) + 1]]

\* The batches tried: runs of one to MaxTexts texts.
TextBatches == {Run(Texts, o, n) : o \in 0..(Len(Texts) - 1), n \in 1..MaxTexts}

ClipEncodeText ==
    /\ clip.built
    /\ \E texts \in TextBatches :
        \E r \in {EncodeText(clip, heap, texts)} :
            /\ clip' = r.obj
            /\ heap' = r.heap
            /\ clip_call' = [op |-> "encode_text", status |-> r.status, texts |-> texts,
                             tokens |-> r.tokens, pooled |-> r.pooled,
                             out_shape |-> r.out_shape]
            /\ pool_log' = pool_log \cup {<<texts[b], r.pooled[b]>> : b \in 1..Len(r.pooled)}
    /\ UNCHANGED <<vitVars, tfVars>>

InitText == ClipInitWith(ContextLengths, 0..MaxLayers) /\ VitIdle /\ TfIdle
NextText == ClipEncodeText
SpecText == InitText /\ [][NextText]_vars

\* The values the encoders are made to return: integer vectors of the
\* embedding dimension, the zero vector among them, in batches that are runs
\* of this list.
FeatureVecs(d) ==
    <<[i \in 1..d |-> IF i = 1 THEN 3 ELSE IF i = 2 THEN 4 ELSE 0],
      [i \in 1..d |-> IF i = d THEN -1 ELSE 0],
      [i \in 1..d |-> 0],
      [i \in 1..d |-> IF i = 1 THEN 4 ELSE IF i = 2 THEN -3 ELSE 0]>>

FeatureBatches(shape) ==
    {Run(FeatureVecs(shape[2]), o, shape[1]) : o \in 0..(Len(FeatureVecs(shape[2])) - 1)}

ForwardTextBatches == {[b \in 1..n |-> <<320>>] : n \in 1..MaxTexts}

\* CLIP.forward: the image is encoded first, then the text.
ClipForward ==
    /\ clip.built
    /\ \E Bv \in 1..MaxBatch, side \in {ClipResolution, 1}, texts \in ForwardTextBatches :
        \E img \in {[shape |-> <<Bv, 3, side, side>>, dtype |-> DefaultDtype,
                     device |-> DefaultDevice]} :
        \E vi \in {EncodeImage(clip, img)} :
            IF vi.status # "ok"
            THEN /\ clip_call' = [op |-> "forward", status |-> "error", image |-> img,
                                  texts |-> texts]
                 /\ UNCHANGED <<clip, heap>>
            ELSE \E te \in {EncodeText(clip, heap, texts)} :
                 IF te.status # "ok"
                 THEN /\ clip_call' = [op |-> "forward", status |-> "error", image |-> img,
                                       texts |-> texts]
                      /\ clip' = te.obj
                      /\ heap' = te.heap
                 ELSE \E image_features \in FeatureBatches(vi.out_shape),
                         text_features \in FeatureBatches(te.out_shape) :
                      \E l \in {Logits(clip, image_features, text_features)} :
                         /\ clip_call' = [op |-> "forward", status |-> "ok", image |-> img,
                                          texts |-> texts,
                                          image_features |-> image_features,
                                          text_features |-> text_features,
                                          image_norms |-> l.image_norms,
                                          text_norms |-> l.text_norms,
                                          logits_per_image |-> l.logits_per_image,
                                          logits_per_text |-> l.logits_per_text]
                         /\ clip' = te.obj
                         /\ heap' = te.heap
    /\ UNCHANGED <<vitVars, tfVars, pool_log>>

InitForward == ClipInitWith({ClipContextLength}, {1}) /\ VitIdle /\ TfIdle
NextForward == ClipForward
SpecForward == InitForward /\ [][NextForward]_vars

(***************************************************************************)
(* Claims about CLIP's construction and encode_text (checked under         *)
(* SpecText).                                                              *)
(***************************************************************************)
\* C1 as stated: construction fails for every bert_type other than "openai"
\* and "huggingface": no such object exists, and none is handed to
\* encode_text.
C1_UnsupportedBackboneRejected ==
    clip.built => clip.bert_type \in {"openai", "huggingface"}

\* C3 as stated: in the "openai" text path, for every configured
\* context_length, each tokenized sequence, the positional embedding's rows and
\* the side of the causal mask all equal context_length on every call.
C3_TokenLengthIsContextLength ==
    (clip.built /\ clip.bert_type = "openai" /\ clip_call.op = "encode_text") =>
        /\ \A b \in 1..Len(clip_call.tokens) : Len(clip_call.tokens[b]) = clip.context_length
        /\ clip.pos_rows = clip.context_length
        /\ \A id \in DOMAIN heap : Len(heap[id].vals) = clip.context_length

\* Under an additive mask, query i can attend to key j unless the entry is -inf.
CanAttend(mask, i, j) == mask.vals[i][j] # NegInf

IsCausal(mask, n) ==
    /\ Len(mask.vals) = n
    /\ \A i \in 1..n :
        /\ Len(mask.vals[i]) = n
        /\ \A j \in 1..n :
            /\ mask.vals[i][j] = (IF j <= i THEN Zero ELSE NegInf)
            /\ CanAttend(mask, i, j) <=> j <= i

\* C5: build_attention_mask returns, for context_length n >= 1, an n x n mask
\* with 0 at (i, j) when j <= i and -inf when j > i, so that query i can
\* attend to key j exactly when j <= i.
C5_MaskIsCausal ==
    (clip.built /\ clip.bert_type = "openai") =>
        /\ clip_call.op = "construct" => IsCausal(clip_call.built_mask, clip.context_length)
        /\ \A id \in DOMAIN heap : IsCausal(heap[id], clip.context_length)

C5_Witness ==
    /\ clip.built
    /\ clip.bert_type = "openai"
    /\ clip_call.op = "construct"
    /\ clip.context_length = 77
    /\ clip_call.built_mask.vals[1][2] = NegInf
    /\ clip_call.built_mask.vals[77][1] = Zero
    /\ heap # EmptyHeap

RowMax(row, p) == \A q \in 1..Len(row) : row[q] <= row[p]

\* C7: in the "openai" text path encode_text pools, for each sequence on its
\* own, the position of that sequence's highest token id, the first such
\* position when it occurs more than once; the same text always gets the
\* same position.
C7_PoolsAtFirstMaxToken ==
    /\ (clip_call.op = "encode_text" /\ clip_call.status = "ok" /\ clip.bert_type = "openai") =>
        /\ Len(clip_call.pooled) = Len(clip_call.texts)
        /\ \A b \in 1..Len(clip_call.pooled) :
            LET row == clip_call.tokens[b]
                p == clip_call.pooled[b] + 1
            IN  /\ p \in 1..Len(row)
                /\ RowMax(row, p)
                /\ \A q \in 1..(p - 1) : row[q] < row[p]
    /\ \A e1, e2 \in pool_log : e1[1] = e2[1] => e1[2] = e2[2]

C7_Witness ==
    /\ clip_call.op = "encode_text"
    /\ clip_call.status = "ok"
    /\ clip.bert_type = "openai"
    /\ Len(clip_call.pooled) = 2
    /\ clip_call.pooled[1] # clip_call.pooled[2]
    /\ \E b \in 1..2 : \E q \in 1..Len(clip_call.tokens[b]) :
            /\ q # clip_call.pooled[b] + 1
            /\ clip_call.tokens[b][q] = clip_call.tokens[b][clip_call.pooled[b] + 1]
    /\ Cardinality(pool_log) >= 3

(***************************************************************************)
(* Claims about CLIP.forward (checked under SpecForward).                  *)
(***************************************************************************)
\* C4: forward returns logits_per_image of shape (B_v, B_t) and
\* logits_per_text of shape (B_t, B_v), its transpose, where
\* logits_per_image[v][t] is exp(logit_scale) times the dot product of the
\* normalized image embedding v and the normalized text embedding t.
C4_LogitsPerTextIsTranspose ==
    (clip_call.op = "forward" /\ clip_call.status = "ok") =>
        LET Bv == clip_call.image.shape[1]
            Bt == Len(clip_call.texts)
            lpi == clip_call.logits_per_image
            lpt == clip_call.logits_per_text
        IN  /\ Len(lpi) = Bv
            /\ \A v \in 1..Bv : Len(lpi[v]) = Bt
            /\ Len(lpt) = Bt
            /\ \A t \in 1..Bt : Len(lpt[t]) = Bv
            /\ \A v \in 1..Bv : \A t \in 1..Bt :
                /\ lpt[t][v] = lpi[v][t]
                /\ lpi[v][t] =
                     RMul(Exp(clip.logit_scale),
                          RDot(Normalize(clip_call.image_features[v]),
                               Normalize(clip_call.text_features[t]),
                               clip.embed_dim))

C4_Witness ==
    /\ clip_call.op = "forward"
    /\ clip_call.status = "ok"
    /\ clip_call.image.shape[1] = 2
    /\ Len(clip_call.texts) = 1
    /\ clip_call.logits_per_image[1][1] # clip_call.logits_per_image[2][1]
    /\ clip_call.logits_per_text[1][2] \notin {NaN, Rat(0, 1)}

\* C8 as stated: forward never returns logits computed from a division by a
\* zero norm: a zero-norm embedding is an error or is guarded.
C8_ZeroNormNeverDivided ==
    (clip_call.op = "forward" /\ clip_call.status = "ok") =>
        /\ \A v \in 1..Len(clip_call.image_norms) : clip_call.image_norms[v] # 0
        /\ \A t \in 1..Len(clip_call.text_norms) : clip_call.text_norms[t] # 0
        /\ \A v \in 1..Len(clip_call.logits_per_image) :
            \A t \in 1..Len(clip_call.logits_per_image[v]) :
                clip_call.logits_per_image[v][t] # NaN

====
